---- MODULE Spec2Model ----


(***************************************************************************)
(* Model of the NIRSpec line-fitting helpers: the line catalogue           *)
(* (spec_slice.py) and the segment extractor, composite model builder and  *)
(* weighted solvers (util.py).                                             *)
(*                                                                         *)
(* Representation.  Python floats are carried in fixed point: fluxes,      *)
(* basis vectors and model curves in units of 1/FP, positions on the       *)
(* wavelength axis in half pixels (so that the pixel edges x -+ d/2 are    *)
(* integers), velocities in m/s.  Catalogue wavelengths are never used in  *)
(* arithmetic by spec_slice.py and are kept as their decimal literals.     *)
(* Python strings that the code inspects character by character            *)
(* (disperser) are sequences of one-character strings.  The small-capital  *)
(* letter of the catalogue's species labels is written as a lower-case     *)
(* "i", which keeps it distinct from the capital "I" of the other labels.  *)
(***************************************************************************)
EXTENDS Integers, Sequences, FiniteSets, TLC

(***************************************************************************)
(* spec_slice.py: the catalogue literals                                   *)
(***************************************************************************)
G140_line_library ==
  << 
     [min_lambda |-> 10020, max_lambda |-> 10100,
      main_line_name |-> "Pa$\\delta$",
      line_names |-> << "He i", "He i", "H i", "He i" >>,
      line_wavlengths |-> << "10030.469746750001", "10033.900158100001", "10052.128", "10074.806682083332" >>],
     [min_lambda |-> 10780, max_lambda |-> 10900,
      main_line_name |-> "He i",
      line_names |-> << "He i", "He i", "He i" >>,
      line_wavlengths |-> << "10832.057471999999", "10833.216751", "10833.306444" >>],
     [min_lambda |-> 10910, max_lambda |-> 10990,
      main_line_name |-> "Pa$\\gamma$",
      line_names |-> << "He i", "He i", "H i" >>,
      line_wavlengths |-> << "10915.991686366666", "10920.0525431", "10941.09" >>],
     [min_lambda |-> 12760, max_lambda |-> 12885,
      main_line_name |-> "Pa$\\beta$",
      line_names |-> << "He i", "He i", "H i", "He i", "He i" >>,
      line_wavlengths |-> << "12788.43071063333", "12793.999402500001", "12821.59", "12849.46706775", "12849.941156" >>],
     [min_lambda |-> 17350, max_lambda |-> 17430,
      main_line_name |-> "Br$\\zeta$",
      line_names |-> << "He i", "He i", "H i", "He i" >>,
      line_wavlengths |-> << "17356.476694124285", "17358.26905142667", "17366.85", "17379.688902016667" >>],
     [min_lambda |-> 18675, max_lambda |-> 18820,
      main_line_name |-> "Pa$\\alpha$",
      line_names |-> << "He i", "He i", "H i" >>,
      line_wavlengths |-> << "18690.442142149997", "18702.3180723", "18756.13" >>]
  >>

G140_extended_lines ==
  << 
     [min_lambda |-> 8980, max_lambda |-> 9060,
      main_line_name |-> "Pa$\\eta$",
      line_names |-> << "He i", "He i", "He i", "He II", "H i" >>,
      line_wavlengths |-> << "8999.4379225875", "8999.990473", "9011.63606005", "9013.688", "9017.385" >>],
     [min_lambda |-> 9190, max_lambda |-> 9290,
      main_line_name |-> "Pa$\\zeta$",
      line_names |-> << "He i", "He I", "He I", "H I" >>,
      line_wavlengths |-> << "9212.852746244444", "9215.75788475", "9227.763", "9231.547" >>]
  >>

G235_line_library ==
  << 
     [min_lambda |-> 16800, max_lambda |-> 16850,
      main_line_name |-> "Br$\\eta$",
      line_names |-> << "He i", "He i", "H i" >>,
      line_wavlengths |-> << "16801.156549285715", "16802.423072166664", "16811.111" >>],
     [min_lambda |-> 17300, max_lambda |-> 17440,
      main_line_name |-> "Br$\\zeta$",
      line_names |-> << "He i", "He i", "He i", "H i", "He i" >>,
      line_wavlengths |-> << "17340.3448365", "17356.476694124285", "17358.26905142667", "17366.85", "17379.688902016667" >>],
     [min_lambda |-> 18655, max_lambda |-> 18840,
      main_line_name |-> "Pa$\\alpha$",
      line_names |-> << "He i", "He i", "H i" >>,
      line_wavlengths |-> << "18690.442142149997", "18702.3180723", "18756.13" >>],
     [min_lambda |-> 20555, max_lambda |-> 20660,
      main_line_name |-> "He i",
      line_names |-> << "He i", "He i", "He i" >>,
      line_wavlengths |-> << "20586.904629999997", "20592.79265", "20607.463187666668" >>],
     [min_lambda |-> 21575, max_lambda |-> 21750,
      main_line_name |-> "Br$\\gamma$",
      line_names |-> << "He i", "He i", "He i", "He i", "He i", "H i" >>,
      line_wavlengths |-> << "21613.70985955", "21622.905790999997", "21647.428962849997", "21661.199999999997" >>],
     [min_lambda |-> 26180, max_lambda |-> 26350,
      main_line_name |-> "Br$\\beta$",
      line_names |-> << "He i", "He i", "He i", "H i" >>,
      line_wavlengths |-> << "26192.12167798333", "26205.6152478", "26240.915984385712", "26258.670000000002" >>],
     [min_lambda |-> 30350, max_lambda |-> 30480,
      main_line_name |-> "Pf$\\eta$",
      line_names |-> << "He i", "He i", "He i", "He i", "He i", "H i" >>,
      line_wavlengths |-> << "30373.882203465", "30373.934701927996", "30379.13724103666", "30392.022" >>]
  >>

G395_line_library ==
  << 
     [min_lambda |-> 30330, max_lambda |-> 30520,
      main_line_name |-> "Pf$\\eta$",
      line_names |-> << "He i", "He i", "He i", "He i", "He i", "He i", "H i", "He i" >>,
      line_wavlengths |-> << "30337.957093580004", "30338.043565500004", "30338.14237", "30373.934701927996", "30377.975075399998", "30379.406177666668", "30392.022", "30399.158583" >>],
     [min_lambda |-> 37350, max_lambda |-> 37580,
      main_line_name |-> "Pf$\\gamma$",
      line_names |-> << "He i", "He i", "He i", "H i", "He i", "He i", "He i", "He i" >>,
      line_wavlengths |-> << "37328.38483621667", "37381.94650391429", "37390.70984881429", "37405.56", "37411.76899333333", "37412.07705", "37478.342826", "37493.933000000005" >>],
     [min_lambda |-> 40300, max_lambda |-> 40730,
      main_line_name |-> "Br$\\alpha$",
      line_names |-> << "He i", "He i", "He i", "He i", "He i", "H i", "He i", "He i", "He i", "He i" >>,
      line_wavlengths |-> << "40377.31950816667", "40391.224109999996", "40409.4473965", "40490.157808985714", "40512.137976000005", "40522.62", "40544.661538", "40545.048049000005", "40563.50551566667", "40574.5684" >>],
     [min_lambda |-> 42900, max_lambda |-> 43100,
      main_line_name |-> "He i",
      line_names |-> << "He i", "He i", "He i", "He i", "He i", "He i" >>,
      line_wavlengths |-> << "42954.167", "42959.1611", "42959.566699999996", "42959.90127", "42959.905360000004", "42959.90569" >>],
     [min_lambda |-> 43725, max_lambda |-> 43900,
      main_line_name |-> "Hu$\\zeta$",
      line_names |-> << "He i", "He i", "He i", "He i", "He i", "He i", "H i" >>,
      line_wavlengths |-> << "43739.4215275", "43745.918667499995", "43746.04701666667", "43746.1930395", "43746.2220454", "43746.46316571428", "43764.543999999994" >>],
     [min_lambda |-> 51230, max_lambda |-> 51450,
      main_line_name |-> "Hu$\\delta$",
      line_names |-> << "He i", "He i", "H i" >>,
      line_wavlengths |-> << "51263.32814807571", "51271.5462147", "51286.57" >>]
  >>


(***************************************************************************)
(* Python helpers used by get_spectra_slice_specs                          *)
(***************************************************************************)
LowerCase == <<"a","b","c","d","e","f","g","h","i","j","k","l","m",
               "n","o","p","q","r","s","t","u","v","w","x","y","z">>

UpperCase == <<"A","B","C","D","E","F","G","H","I","J","K","L","M",
               "N","O","P","Q","R","S","T","U","V","W","X","Y","Z">>

\* str.upper() on one character: lower-case letters map to their capitals,
\* every other character is unchanged.
UpperChar(c) ==
  IF \E k \in 1..Len(LowerCase) : LowerCase[k] = c
  THEN UpperCase[CHOOSE k \in 1..Len(LowerCase) : LowerCase[k] = c]
  ELSE c

\* disperser.upper()
Upper(s) == [k \in 1..Len(s) |-> UpperChar(s[k])]

\* sub in s  (substring test)
Contains(sub, s) ==
  \E k \in 0..(Len(s) - Len(sub)) : SubSeq(s, k + 1, k + Len(sub)) = sub

\* 1-based position addressed by a Python index i (negative counts from the end)
PyIndex(list, i) == IF i < 0 THEN Len(list) + i + 1 ELSE i + 1

\* list.pop(i): the list without the element at Python index i.  Every pop of
\* get_spectra_slice_specs addresses an existing element (PopInRange).
Pop(list, i) ==
  LET k == PyIndex(list, i)
  IN  [j \in 1..(Len(list) - 1) |-> IF j < k THEN list[j] ELSE list[j + 1]]

PopInRange(list, i) == PyIndex(list, i) \in 1..Len(list)

G140 == <<"G","1","4","0">>
G235 == <<"G","2","3","5">>
G395 == <<"G","3","9","5">>

\* a variant of G140_mode whose MSA branch leaves out pop(1)
G140_mode_without_second_pop(lib, mode) ==
  IF mode = "FS" THEN Pop(lib, -1)
  ELSE IF mode = "MSA" THEN Pop(lib, -1)
  ELSE lib

\* the positional removals of the G140 branch for the mode
G140_mode(lib, mode) ==
  IF mode = "FS" THEN Pop(lib, -1)
  ELSE IF mode = "MSA" THEN Pop(Pop(lib, -1), 1)
  ELSE lib

\* a variant of G140_extend that prepends the extension and removes nothing
G140_extend_only_adds(lib, extend) ==
  IF extend THEN G140_extended_lines \o lib ELSE lib

\* the extend branch (G140 only): prepend the extension, drop the last two
G140_extend(lib, extend) ==
  IF extend THEN Pop(Pop(G140_extended_lines \o lib, -2), -1) ELSE lib

G235_mode(lib, mode) ==
  IF mode = "FS" THEN Pop(Pop(lib, 0), -1)
  ELSE IF mode = "MSA" THEN Pop(Pop(lib, 0), 2)
  ELSE lib

G395_mode(lib, mode) ==
  IF mode = "FS" THEN Pop(Pop(lib, 1), -1)
  ELSE IF mode = "MSA" THEN Pop(Pop(Pop(lib, 2), 1), -1)
  ELSE lib

\* a variant of get_spectra_slice_specs that tests the disperser as given,
\* without upper-casing it
get_spectra_slice_specs_case_sensitive(disperser, mode, extend) ==
  IF Contains(G140, disperser)
  THEN [raised |-> "", value |-> G140_extend(G140_mode(G140_line_library, mode), extend)]
  ELSE IF Contains(G235, disperser)
  THEN [raised |-> "", value |-> G235_mode(G235_line_library, mode)]
  ELSE IF Contains(G395, disperser)
  THEN [raised |-> "", value |-> G395_mode(G395_line_library, mode)]
  ELSE [raised |-> "ValueError", value |-> << >>]

\* get_spectra_slice_specs(disperser, mode, extend): the returned list, or the
\* exception raised
get_spectra_slice_specs(disperser, mode, extend) ==
  LET d == Upper(disperser)
  IN  IF Contains(G140, d)
      THEN [raised |-> "", value |-> G140_extend(G140_mode(G140_line_library, mode), extend)]
      ELSE IF Contains(G235, d)
      THEN [raised |-> "", value |-> G235_mode(G235_line_library, mode)]
      ELSE IF Contains(G395, d)
      THEN [raised |-> "", value |-> G395_mode(G395_line_library, mode)]
      ELSE [raised |-> "ValueError", value |-> << >>]

(***************************************************************************)
(* util.py: fixed-point arithmetic                                         *)
(***************************************************************************)
\* the float 1.0; every flux, basis value, weight and model value is a
\* multiple of 1/FP
FP == 100

\* division rounding toward zero: like IEEE rounding it commutes with negation
Quot(a, b) == IF a >= 0 THEN a \div b ELSE -((-a) \div b)

\* product of two fixed-point numbers
Mul(a, b) == Quot(a * b, FP)

Abs(a) == IF a >= 0 THEN a ELSE -a

RECURSIVE Sum(_)
Sum(s) == IF s = << >> THEN 0 ELSE Head(s) + Sum(Tail(s))

\* np.sqrt on a fixed-point number >= 0
Sqrt(a) == CHOOSE r \in 0..(a * FP) : r * r <= a * FP /\ (r + 1) * (r + 1) > a * FP

\* speed of light, in m/s (velocities are in m/s)
light_speed == 299792458

\* the factor 2.355 between fwhm and sigma; fwhm is in 1/1000 of the
\* wavelength unit, sigma in wavelength units
FwhmPerSigma == 2355

\* np.sqrt(np.pi / 2.0) in fixed point
SqrtHalfPi == 125

\* scipy.special.erf at t / (2 sqrt 2), t = 1..6, in fixed point; erf is odd
\* and is 1.0 to the precision of FP from t = 6 on
ErfTable == <<38, 68, 87, 95, 99, 100>>

\* erf(num / (np.sqrt(2) * sigma))
erf(num, sigma) ==
  LET t == Quot(2 * num, sigma)
      v == IF t = 0 THEN 0 ELSE IF Abs(t) > Len(ErfTable) THEN FP ELSE ErfTable[Abs(t)]
  IN  IF t < 0 THEN -v ELSE v

\* a variant of integrate_gaussian that takes fwhm itself for sigma
integrate_gaussian_fwhm_as_sigma(a, b, mu, fwhm) ==
  LET sigma == Quot(fwhm, 1000)
  IN  Quot(sigma * SqrtHalfPi * (erf(b - mu, sigma) - erf(a - mu, sigma)), FP)

\* integrate_gaussian(a, b, mu, fwhm) for scalar bounds
integrate_gaussian(a, b, mu, fwhm) ==
  LET sigma == Quot(fwhm, FwhmPerSigma)
  IN  Quot(sigma * SqrtHalfPi * (erf(b - mu, sigma) - erf(a - mu, sigma)), FP)

\* np.arctan(z) / np.pi at z = t / 2, t = 1..16, in fixed point; arctan is odd
AtanOverPiTable == <<15, 25, 31, 35, 38, 40, 41, 42, 43, 44, 44, 45, 45, 45, 46, 46>>

\* np.arctan(num / gamma) / np.pi, gamma in 1/1000 of the wavelength unit; the
\* argument is rounded to the nearest tabulated point
atan_over_pi(num, gamma) ==
  LET t == Quot(2 * (2 * 1000 * num) + (IF num >= 0 THEN gamma ELSE -gamma), 2 * gamma)
      v == IF t = 0 THEN 0
           ELSE IF Abs(t) > Len(AtanOverPiTable) THEN 48
           ELSE AtanOverPiTable[Abs(t)]
  IN  IF t < 0 THEN -v ELSE v

\* a variant of integrate_lorentzian that returns the magnitude of the
\* difference
integrate_lorentzian_unsigned(a, b, mu, fwhm) ==
  LET gamma == Quot(fwhm, 2)
  IN  Abs(atan_over_pi(b - mu, gamma) - atan_over_pi(a - mu, gamma))

\* integrate_lorentzian(a, b, mu, fwhm) for scalar bounds
integrate_lorentzian(a, b, mu, fwhm) ==
  LET gamma == Quot(fwhm, 2)
  IN  atan_over_pi(b - mu, gamma) - atan_over_pi(a - mu, gamma)

\* integrate_voigt(a, b, mu, fwhm, gamma) for scalar bounds, at gamma = 0 only:
\* scipy's voigt_profile(x, sigma, 0) is the unit-area Gaussian density, whose
\* integral is (erf(b') - erf(a')) / 2.  The quadrature for gamma > 0 has no
\* closed form and is outside this model.
integrate_voigt(a, b, mu, fwhm, gamma) ==
  LET sigma == Quot(fwhm, FwhmPerSigma)
  IN  Quot(erf(b - mu, sigma) - erf(a - mu, sigma), 2)

\* np.mean(x)
Mean(x) == Quot(Sum(x), Len(x))

\* the continuum added by every pixel-integrated profile
Continuum(x, i, continuum_amp, continuum_slope) ==
  continuum_amp + (x[i] - Mean(x)) * continuum_slope

\* get_pixel_integrated_gaussian; x[1] - x[0] needs two samples
get_pixel_integrated_gaussian(x, mu, fwhm, gaussian_amp, continuum_amp, continuum_slope) ==
  LET lambda_diff == x[2] - x[1]
      half == Quot(lambda_diff, 2)
  IN  [i \in 1..Len(x) |->
         Mul(gaussian_amp, integrate_gaussian(x[i] - half, x[i] + half, mu, fwhm))
         + Continuum(x, i, continuum_amp, continuum_slope)]

\* get_pixel_integrated_voigt
get_pixel_integrated_voigt(x, mu, fwhm, gamma, amp, continuum_amp, continuum_slope) ==
  LET lambda_diff == x[2] - x[1]
      half == Quot(lambda_diff, 2)
  IN  [i \in 1..Len(x) |->
         Mul(amp, integrate_voigt(x[i] - half, x[i] + half, mu, fwhm, gamma))
         + Continuum(x, i, continuum_amp, continuum_slope)]

\* get_pixel_integrated_lorentzian
get_pixel_integrated_lorentzian(x, mu, fwhm, amp, continuum_amp, continuum_slope) ==
  LET lambda_diff == x[2] - x[1]
      half == Quot(lambda_diff, 2)
  IN  [i \in 1..Len(x) |->
         Mul(amp, integrate_lorentzian(x[i] - half, x[i] + half, mu, fwhm))
         + Continuum(x, i, continuum_amp, continuum_slope)]

\* a variant of get_spectra_model that takes the pixel width from x[-1] - x[0],
\* which a segment of one sample answers with 0
get_spectra_model_width_from_ends(x, mu, fwhm, gaussian_amp, continuum_amp, continuum_slope, line_type, voigt_gamma) ==
  IF line_type \notin {"gaussian", "voigt", "lorentzian"}
  THEN [raised |-> "ValueError", value |-> << >>]
  ELSE IF Len(x) < 1
  THEN [raised |-> "IndexError", value |-> << >>]
  ELSE IF Len(x) = 1
  THEN [raised |-> "", value |-> <<continuum_amp>>]
  ELSE [raised |-> "",
        value |->
          IF line_type = "gaussian"
          THEN get_pixel_integrated_gaussian(x, mu, fwhm, gaussian_amp,
                                             continuum_amp, continuum_slope)
          ELSE IF line_type = "voigt"
          THEN get_pixel_integrated_voigt(x, mu, fwhm, voigt_gamma, gaussian_amp,
                                          continuum_amp, continuum_slope)
          ELSE get_pixel_integrated_lorentzian(x, mu, fwhm, gaussian_amp,
                                               continuum_amp, continuum_slope)]

\* get_spectra_model: the line vector, or the exception raised.  Indexing
\* x[1] of a segment of fewer than two samples raises IndexError.
get_spectra_model(x, mu, fwhm, gaussian_amp, continuum_amp, continuum_slope, line_type, voigt_gamma) ==
  IF line_type \notin {"gaussian", "voigt", "lorentzian"}
  THEN [raised |-> "ValueError", value |-> << >>]
  ELSE IF Len(x) < 2
  THEN [raised |-> "IndexError", value |-> << >>]
  ELSE [raised |-> "",
        value |->
          IF line_type = "gaussian"
          THEN get_pixel_integrated_gaussian(x, mu, fwhm, gaussian_amp,
                                             continuum_amp, continuum_slope)
          ELSE IF line_type = "voigt"
          THEN get_pixel_integrated_voigt(x, mu, fwhm, voigt_gamma, gaussian_amp,
                                          continuum_amp, continuum_slope)
          ELSE get_pixel_integrated_lorentzian(x, mu, fwhm, gaussian_amp,
                                               continuum_amp, continuum_slope)]

(***************************************************************************)
(* util.py: the profiles themselves                                        *)
(***************************************************************************)
\* np.pi in fixed point
Pi == 314

\* np.sqrt(2 * np.pi) in fixed point
SqrtTwoPi == 251

\* np.exp(-u**2 / 2) at u = t / 2, t = 1..6, in fixed point; it is 0.0 to the
\* precision of FP from t = 7 on
ExpTable == <<88, 61, 32, 14, 4, 1>>

\* np.exp(-(num ** 2) / (2 * sigma**2))
exp_gaussian(num, sigma) ==
  LET t == Abs(Quot(2 * num, sigma))
  IN  IF t = 0 THEN FP ELSE IF t > Len(ExpTable) THEN 0 ELSE ExpTable[t]

\* get_gaussian
get_gaussian(x, mu, fwhm, gaussian_amp, continuum_amp, continuum_slope) ==
  LET sigma == Quot(fwhm, FwhmPerSigma)
  IN  [i \in 1..Len(x) |->
         Mul(gaussian_amp, exp_gaussian(x[i] - mu, sigma))
         + Continuum(x, i, continuum_amp, continuum_slope)]

\* get_lorentzian; gamma is in 1/100 of the wavelength unit
get_lorentzian(x, mu, fwhm, amp, continuum_amp, continuum_slope) ==
  LET gamma == Quot(Quot(fwhm, 2), 10)
  IN  [i \in 1..Len(x) |->
         Quot(amp * gamma * 100 * FP,
              ((x[i] - mu) * (x[i] - mu) * 10000 + gamma * gamma) * Pi)
         + Continuum(x, i, continuum_amp, continuum_slope)]

\* scipy.special.voigt_profile(num, sigma, gamma) at gamma = 0: the Gaussian
\* density of unit area
voigt_profile(num, sigma, gamma) == Quot(exp_gaussian(num, sigma) * FP, sigma * SqrtTwoPi)

\* get_voigt, at gamma = 0
get_voigt(x, mu, fwhm, gamma, amp, continuum_amp, continuum_slope) ==
  LET sigma == Quot(fwhm, FwhmPerSigma)
  IN  [i \in 1..Len(x) |->
         Mul(amp, voigt_profile(x[i] - mu, sigma, gamma))
         + Continuum(x, i, continuum_amp, continuum_slope)]

(***************************************************************************)
(* util.py: get_spectra_cuts                                               *)
(***************************************************************************)
\* a variant of cut_mask that keeps the samples lying on the two limits
cut_mask_inclusive(start, end, wavelengths) ==
  [i \in 1..Len(wavelengths) |-> wavelengths[i] >= start /\ wavelengths[i] <= end]

\* (wavelengths > start) & (wavelengths < end), elementwise
cut_mask(start, end, wavelengths) ==
  [i \in 1..Len(wavelengths) |-> wavelengths[i] > start /\ wavelengths[i] < end]

\* arr[mask] for a boolean mask of the length of arr: the selected elements in
\* their original order
RECURSIVE BoolIndex(_, _)
BoolIndex(arr, mask) ==
  IF arr = << >> THEN << >>
  ELSE (IF Head(mask) THEN <<Head(arr)>> ELSE << >>) \o BoolIndex(Tail(arr), Tail(mask))

get_spectra_cuts(start, end, wavelengths, spectra_1d, noise_1d) ==
  LET wavelengths_cut == BoolIndex(wavelengths, cut_mask(start, end, wavelengths))
      spectra_cut == BoolIndex(spectra_1d, cut_mask(start, end, wavelengths))
      noise_cut == BoolIndex(noise_1d, cut_mask(start, end, wavelengths))
  IN  <<wavelengths_cut, spectra_cut, noise_cut>>

(***************************************************************************)
(* util.py: basis vectors and the weighted system.  A matrix is kept as    *)
(* the sequence of its columns (np.array(line_models).T).                  *)
(***************************************************************************)
\* np.ones_like(fwhms_or_lines, dtype=float) * fwhms, taken when
\* isinstance(fwhms, float) holds; an int (or any other non-float scalar)
\* is passed through unchanged
broadcast_fwhms(fwhms, lines) ==
  IF fwhms.kind = "float"
  THEN [kind |-> "seq", v |-> [k \in 1..Len(lines) |-> fwhms.v[1]]]
  ELSE fwhms

\* mu = line * (1 + velocity / light_speed)
shifted_centre(line, velocity) == line + Quot(line * velocity, light_speed)

\* np.ones_like(line_model)
ones_like(line_model) == [i \in 1..Len(line_model) |-> FP]

\* np.arange(len(line_model))
arange(line_model) == [i \in 1..Len(line_model) |-> (i - 1) * FP]

Min2(a, b) == IF a <= b THEN a ELSE b

\* the loop of best_linear_fit_model over zip(fwhms, lines) followed by the two
\* appends: the list of basis vectors, or the exception raised.  zip() of a
\* scalar raises TypeError; a failing get_spectra_model stops the loop at the
\* first line; with no line at all line_model is unbound at the first append.
line_models_of(velocity, fwhms, wavelengths, lines, line_type, voigt_gamma) ==
  IF fwhms.kind # "seq" THEN [raised |-> "TypeError", value |-> << >>]
  ELSE
    LET n == Min2(Len(fwhms.v), Len(lines))
        model(k) == get_spectra_model(wavelengths, shifted_centre(lines[k], velocity),
                                      fwhms.v[k], FP, 0, 0, line_type, voigt_gamma)
    IN  IF n = 0 THEN [raised |-> "UnboundLocalError", value |-> << >>]
        ELSE IF model(1).raised # "" THEN [raised |-> model(1).raised, value |-> << >>]
        ELSE [raised |-> "",
              value |-> [k \in 1..n |-> model(k).value]
                        \o <<ones_like(model(n).value), arange(model(n).value)>>]

\* np.sqrt(w) for w = 1 / noise**2
sqrt_w(noise) == [i \in 1..Len(noise) |-> Sqrt(Quot(FP * FP * FP, noise[i] * noise[i]))]

\* A * np.sqrt(w)[:, np.newaxis]
weight_matrix(A, noise) ==
  LET sw == sqrt_w(noise)
  IN  [j \in 1..Len(A) |-> [i \in 1..Len(A[j]) |-> Mul(A[j][i], sw[i])]]

\* b * np.sqrt(w)
weight_vector(b, noise) ==
  LET sw == sqrt_w(noise)
  IN  [i \in 1..Len(b) |-> Mul(b[i], sw[i])]

\* A @ c
RECURSIVE Dot(_, _, _)
Dot(A, c, i) == IF A = << >> THEN 0 ELSE Head(A)[i] * Head(c) + Dot(Tail(A), Tail(c), i)

matmul(A, c) == [i \in 1..Len(A[1]) |-> Dot(A, c, i)]

(***************************************************************************)
(* The library solvers.  Coefficients range over the integers              *)
(* -CoeffMax..CoeffMax; each solver returns the minimisers of the squared  *)
(* residual over its admissible grid.                                      *)
(***************************************************************************)
CoeffMax == 1

Square(a) == a * a

\* || A c - b ||^2
Residual(A, b, c) == Sum([i \in 1..Len(b) |-> Square(Dot(A, c, i) - b[i])])

Norm2(c) == Sum([j \in 1..Len(c) |-> Square(c[j])])

SetMin(S) == CHOOSE m \in S : \A k \in S : m <= k

\* the members of cands of least squared residual
ArgMin(cands, A, b) ==
  LET scored == {<<Residual(A, b, c), c>> : c \in cands}
      best == SetMin({s[1] : s \in scored})
  IN  {s[2] : s \in {t \in scored : t[1] = best}}

\* np.linalg.lstsq(A, b, rcond=None)[0] when the SVD converges: the
\* least-squares solution, and for a rank-deficient A the one of least norm.
\* Rank deficiency is no error.
lstsq(A, b) ==
  LET sols == ArgMin([1..Len(A) -> (-CoeffMax)..CoeffMax], A, b)
      least == SetMin({Norm2(c) : c \in sols})
  IN  {c \in sols : Norm2(c) = least}

\* scipy.optimize.nnls(A, b)[0] when it converges: a least-squares solution
\* among the coefficient vectors with no negative entry
nnls(A, b) == ArgMin([1..Len(A) -> 0..CoeffMax], A, b)

(***************************************************************************)
(* best_linear_fit_model_simultaneous: its loop and its second system      *)
(***************************************************************************)
\* the loop over zip(fwhms_1, fwhms_2, lines) and the two appends to
\* line_models_1: both lists of vectors, or the exception raised
line_models_simultaneous_of(velocity_1, fwhms_1, velocity_2, fwhms_2, wavelengths_1, wavelengths_2, lines) ==
  IF fwhms_1.kind # "seq" \/ fwhms_2.kind # "seq"
  THEN [raised |-> "TypeError", value_1 |-> << >>, value_2 |-> << >>]
  ELSE
    LET n == Min2(Min2(Len(fwhms_1.v), Len(fwhms_2.v)), Len(lines))
        model_1(k) == get_spectra_model(wavelengths_1, shifted_centre(lines[k], velocity_1),
                                        fwhms_1.v[k], FP, 0, 0, "gaussian", FP)
        model_2(k) == get_spectra_model(wavelengths_2, shifted_centre(lines[k], velocity_2),
                                        fwhms_2.v[k], FP, 0, 0, "gaussian", FP)
    IN  IF n = 0
        THEN [raised |-> "UnboundLocalError", value_1 |-> << >>, value_2 |-> << >>]
        ELSE IF model_1(1).raised # ""
        THEN [raised |-> model_1(1).raised, value_1 |-> << >>, value_2 |-> << >>]
        ELSE IF model_2(1).raised # ""
        THEN [raised |-> model_2(1).raised, value_1 |-> << >>, value_2 |-> << >>]
        ELSE [raised |-> "",
              value_1 |-> [k \in 1..n |-> model_1(k).value]
                          \o <<ones_like(model_1(n).value), arange(model_1(n).value)>>,
              value_2 |-> [k \in 1..n |-> model_2(k).value]]

\* a variant of all_but_last_two that drops the leading two coefficients
\* (coeffs[2:]), so that the constant and ramp coefficients are kept
all_but_first_two(coeffs) == SubSeq(coeffs, 3, Len(coeffs))

\* coeffs[:-2]
all_but_last_two(coeffs) == SubSeq(coeffs, 1, Len(coeffs) - 2)

\* spec_model_2 = np.array(line_models_2).T @ coeffs[:-2]
spec_model_2_of(line_models_2, coeffs) == matmul(line_models_2, all_but_last_two(coeffs))

\* A_2 = np.vstack((spec_model_2, ones_like(spec_model_2), arange(len(spec_model_2)))).T
A_2_of(spec_model_2) == <<spec_model_2, ones_like(spec_model_2), arange(spec_model_2)>>

\* a variant of simultaneous_solver that uses the unconstrained solver
simultaneous_solver_unconstrained(A, b) == lstsq(A, b)

\* the solver both systems of best_linear_fit_model_simultaneous are given to
simultaneous_solver(A, b) == nnls(A, b)

\* a variant of except_system that hands nnls the unweighted A and b
except_system_unweighted(A_weighted, b_weighted, A, b) == [A |-> A, b |-> b]

\* the system the except branch of best_linear_fit_model hands to nnls
except_system(A_weighted, b_weighted, A, b) == [A |-> A_weighted, b |-> b_weighted]

\* the return statement of best_linear_fit_model
fit_return(line_model, coeffs, get_amp) ==
  IF get_amp THEN <<line_model, coeffs>> ELSE line_model

(***************************************************************************)
(* Inputs                                                                  *)
(***************************************************************************)
\* longest segment and longest spectrum
MaxN == 3

\* a segment of N pixels one wavelength unit (two half pixels) apart
Wavelengths(N) == [i \in 1..N |-> 20000 + 2 * (i - 1)]

LineLists == { << >>, <<20002>>, <<20002, 20002>>, <<20002, 20004>> }

Velocities == {0, 29979}

\* fwhms as passed by the caller: a Python float, a Python int, or a sequence
\* (a scalar is held as the one-element sequence of its value)
FwhmsFor(lines) ==
  { [kind |-> "float", v |-> <<4710>>], [kind |-> "int", v |-> <<5000>>],
    [kind |-> "seq", v |-> [k \in 1..Len(lines) |-> 4710]],
    [kind |-> "seq", v |-> [k \in 1..Len(lines) |-> IF k = 1 THEN 2355 ELSE 4710]] }

\* fluxes: a flat continuum, a continuum falling through zero, an emission line
Spectra(N) ==
  { [i \in 1..N |-> FP],
    [i \in 1..N |-> FP * (2 - i)],
    [i \in 1..N |-> IF i = 2 THEN 190 ELSE IF i \in {1, 3} THEN 122 ELSE 30] }

Noises(N) == { [i \in 1..N |-> FP], [i \in 1..N |-> IF i % 2 = 1 THEN FP ELSE 2 * FP] }

LineTypes == {"gaussian", "voigt", "lorentzian", "boxcar"}

\* the arguments of best_linear_fit_model: every combination for the default
\* line type, and for the other line types a flat spectrum of unit noise
FitArgs ==
  UNION { UNION { { [velocity |-> velocity, fwhms |-> fwhms, wavelengths |-> Wavelengths(N),
                     spectra |-> spectra, noise |-> noise, lines |-> lines,
                     line_type |-> line_type, voigt_gamma |-> 0, get_amp |-> get_amp] :
                    velocity \in Velocities, fwhms \in FwhmsFor(lines),
                    spectra \in Spectra(N), noise \in Noises(N),
                    line_type \in LineTypes, get_amp \in BOOLEAN } :
                  N \in 0..MaxN } :
          lines \in LineLists }

FitArgsChecked ==
  { a \in FitArgs :
      a.line_type = "gaussian"
      \/ (a.velocity = 0 /\ a.get_amp /\ \A i \in 1..Len(a.spectra) :
             a.spectra[i] = FP /\ a.noise[i] = FP) }

\* the arguments of best_linear_fit_model_simultaneous
SimultaneousArgs ==
  UNION { UNION { { [velocity_1 |-> 0, fwhms_1 |-> fwhms_1,
                     velocity_2 |-> 29979, fwhms_2 |-> fwhms_2,
                     wavelengths_1 |-> Wavelengths(N[1]), spectra_1 |-> spectra_1,
                     noise_1 |-> [i \in 1..N[1] |-> FP],
                     wavelengths_2 |-> Wavelengths(N[2]), spectra_2 |-> spectra_2,
                     noise_2 |-> [i \in 1..N[2] |-> IF i % 2 = 1 THEN FP ELSE 2 * FP],
                     lines |-> lines] :
                    fwhms_1 \in FwhmsFor(lines),
                    fwhms_2 \in {f \in FwhmsFor(lines) : f.kind # "seq"},
                    spectra_1 \in Spectra(N[1]),
                    spectra_2 \in {s \in Spectra(N[2]) : \A i \in 1..N[2] : s[i] <= FP} } :
                  N \in (0..MaxN) \X (0..MaxN) } :
          lines \in LineLists }

Dispersers ==
  { G140, <<"g","1","4","0","h">>, <<"G","2","3","5","M">>, <<"g","3","9","5","m">>,
    <<"P","R","I","S","M">>, <<"G","1","4">> }

Modes == {"FS", "MSA", "fs", "IFU"}

\* full spectra handed to get_spectra_cuts: any order, repeated values allowed
CutWavelengths == UNION { [1..L -> {20000, 20002, 20004}] : L \in 0..MaxN }

CutLimits == {19999, 20000, 20002, 20004, 20005}

\* centres, integration limits and widths handed to the profile functions;
\* the widths are 1, 2 and 3 sigma-units of 2.355
ProfileCentres == {20000, 20003}

ProfileLimits == 19994..20006

ProfileFwhms == {2355, 4710, 7065}

\* amp, continuum_amp and continuum_slope handed to the profile functions
ProfileAmps == {FP, 2 * FP}

ProfileContinua == {<<0, 0>>, <<FP, 0>>, <<0, 1>>}

(***************************************************************************)
(* State                                                                   *)
(***************************************************************************)
VARIABLES
  op,             \* the function being executed, "none" before the first call
  pc,             \* the position in it
  args,           \* its arguments
  ret,            \* its return value once pc = "returned"
  err,            \* the exception that left it once pc = "raised"
  line_models,    \* line_models / line_models_1 (the columns of A)
  line_models_2,  \* line_models_2
  A_weighted,     \* A_weighted
  b_weighted,     \* b_weighted
  coeffs,         \* coeffs
  A_2,            \* A_2
  coeffs_2,       \* coeffs_2
  solves,         \* the solver calls made so far by the running function
  kept            \* what the caller keeps of an earlier get_spectra_slice_specs call

vars == <<op, pc, args, ret, err, line_models, line_models_2, A_weighted, b_weighted,
          coeffs, A_2, coeffs_2, solves, kept>>

locals == <<line_models, line_models_2, A_weighted, b_weighted, coeffs, A_2, coeffs_2, solves>>

Init ==
  /\ op = "none"
  /\ pc = "idle"
  /\ args = << >>
  /\ ret = << >>
  /\ err = ""
  /\ line_models = << >>
  /\ line_models_2 = << >>
  /\ A_weighted = << >>
  /\ b_weighted = << >>
  /\ coeffs = << >>
  /\ A_2 = << >>
  /\ coeffs_2 = << >>
  /\ solves = << >>
  /\ kept = << >>

\* a fresh call frame; calls are made one after the other
Enter(f, a) ==
  /\ pc = "idle"
  /\ op' = f
  /\ args' = a
  /\ line_models' = << >>
  /\ line_models_2' = << >>
  /\ A_weighted' = << >>
  /\ b_weighted' = << >>
  /\ coeffs' = << >>
  /\ A_2' = << >>
  /\ coeffs_2' = << >>
  /\ solves' = << >>
  /\ UNCHANGED kept

Raise(e) ==
  /\ pc' = "raised"
  /\ err' = e
  /\ UNCHANGED <<op, args, ret>>

Solved(solver, A, b, outcome) == [solver |-> solver, A |-> A, b |-> b, outcome |-> outcome]

(***************************************************************************)
(* spec_slice.py and get_spectra_cuts: one action per call                 *)
(***************************************************************************)
(***************************************************************************)
(* The caller of get_spectra_slice_specs.  line_library is a list display  *)
(* evaluated inside the function: each call builds a new list of new       *)
(* groups, applies its removals to that list, and returns it.  The caller  *)
(* may keep the returned list and modify it.                               *)
(***************************************************************************)
\* a variant of CallGetSpectraSliceSpecs in which the list built for given
\* arguments is built once and handed out again by later calls
CallGetSpectraSliceSpecsMemoized ==
  \E d \in Dispersers, m \in Modes, e \in BOOLEAN :
    LET r == get_spectra_slice_specs(d, m, e)
        a == [disperser |-> d, mode |-> m, extend |-> e]
    IN  /\ Enter("get_spectra_slice_specs", a)
        /\ ret' = IF kept # << >> /\ kept.args = a THEN kept.list ELSE r.value
        /\ err' = r.raised
        /\ pc' = IF r.raised = "" THEN "returned" ELSE "raised"

CallGetSpectraSliceSpecs ==
  \E d \in Dispersers, m \in Modes, e \in BOOLEAN :
    LET r == get_spectra_slice_specs(d, m, e)
    IN  /\ Enter("get_spectra_slice_specs", [disperser |-> d, mode |-> m, extend |-> e])
        /\ ret' = r.value
        /\ err' = r.raised
        /\ pc' = IF r.raised = "" THEN "returned" ELSE "raised"

CallGetSpectraCuts ==
  \E w \in CutWavelengths, start \in CutLimits, end \in CutLimits :
    LET spectra_1d == [i \in 1..Len(w) |-> FP * i]
        noise_1d == [i \in 1..Len(w) |-> FP + i]
    IN  /\ Enter("get_spectra_cuts",
                 [start |-> start, end |-> end, wavelengths |-> w,
                  spectra_1d |-> spectra_1d, noise_1d |-> noise_1d])
        /\ ret' = get_spectra_cuts(start, end, w, spectra_1d, noise_1d)
        /\ err' = ""
        /\ pc' = "returned"

(***************************************************************************)
(* The integrals and the profiles: one action per call                     *)
(***************************************************************************)
CallIntegrateGaussian ==
  \E a \in ProfileLimits, b \in ProfileLimits, mu \in ProfileCentres, fwhm \in ProfileFwhms :
    /\ Enter("integrate_gaussian", [a |-> a, b |-> b, mu |-> mu, fwhm |-> fwhm])
    /\ ret' = integrate_gaussian(a, b, mu, fwhm)
    /\ err' = ""
    /\ pc' = "returned"

CallIntegrateLorentzian ==
  \E a \in ProfileLimits, b \in ProfileLimits, mu \in ProfileCentres, fwhm \in ProfileFwhms :
    /\ Enter("integrate_lorentzian", [a |-> a, b |-> b, mu |-> mu, fwhm |-> fwhm])
    /\ ret' = integrate_lorentzian(a, b, mu, fwhm)
    /\ err' = ""
    /\ pc' = "returned"

\* lines 71-83: one quadrature per pair of limits
CallIntegrateVoigt ==
  \E lo \in ProfileLimits, hi \in ProfileLimits, mu \in ProfileCentres, fwhm \in ProfileFwhms :
    LET a == <<lo, hi>>
        b == <<hi, lo>>
    IN  /\ Enter("integrate_voigt", [a |-> a, b |-> b, mu |-> mu, fwhm |-> fwhm, gamma |-> 0])
        /\ ret' = [i \in 1..Len(a) |-> integrate_voigt(a[i], b[i], mu, fwhm, 0)]
        /\ err' = ""
        /\ pc' = "returned"

CallGetGaussian ==
  \E N \in 1..MaxN, mu \in ProfileCentres, fwhm \in ProfileFwhms, amp \in ProfileAmps,
     c \in ProfileContinua :
    /\ Enter("get_gaussian", [x |-> Wavelengths(N), mu |-> mu, fwhm |-> fwhm, amp |-> amp,
                              continuum_amp |-> c[1], continuum_slope |-> c[2]])
    /\ ret' = get_gaussian(Wavelengths(N), mu, fwhm, amp, c[1], c[2])
    /\ err' = ""
    /\ pc' = "returned"

CallGetLorentzian ==
  \E N \in 1..MaxN, mu \in ProfileCentres, fwhm \in ProfileFwhms, amp \in ProfileAmps,
     c \in ProfileContinua :
    /\ Enter("get_lorentzian", [x |-> Wavelengths(N), mu |-> mu, fwhm |-> fwhm, amp |-> amp,
                                continuum_amp |-> c[1], continuum_slope |-> c[2]])
    /\ ret' = get_lorentzian(Wavelengths(N), mu, fwhm, amp, c[1], c[2])
    /\ err' = ""
    /\ pc' = "returned"

CallGetVoigt ==
  \E N \in 1..MaxN, mu \in ProfileCentres, fwhm \in ProfileFwhms, amp \in ProfileAmps,
     c \in ProfileContinua :
    /\ Enter("get_voigt", [x |-> Wavelengths(N), mu |-> mu, fwhm |-> fwhm, gamma |-> 0,
                           amp |-> amp, continuum_amp |-> c[1], continuum_slope |-> c[2]])
    /\ ret' = get_voigt(Wavelengths(N), mu, fwhm, 0, amp, c[1], c[2])
    /\ err' = ""
    /\ pc' = "returned"

(***************************************************************************)
(* best_linear_fit_model                                                   *)
(***************************************************************************)
CallBestLinearFitModel ==
  \E a \in FitArgsChecked :
    /\ Enter("best_linear_fit_model", a)
    /\ pc' = "build"
    /\ ret' = << >>
    /\ err' = ""

\* lines 389-410: the basis vectors, A, and the weighted system
BuildBasis ==
  /\ UNCHANGED kept
  /\ op = "best_linear_fit_model"
  /\ pc = "build"
  /\ LET r == line_models_of(args.velocity, broadcast_fwhms(args.fwhms, args.lines),
                             args.wavelengths, args.lines, args.line_type,
                             args.voigt_gamma)
     IN  IF r.raised # ""
         THEN /\ Raise(r.raised)
              /\ UNCHANGED locals
         ELSE /\ line_models' = r.value
              /\ A_weighted' = weight_matrix(r.value, args.noise)
              /\ b_weighted' = weight_vector(args.spectra, args.noise)
              /\ pc' = "lstsq"
              /\ UNCHANGED <<op, args, ret, err, line_models_2, coeffs, A_2, coeffs_2, solves>>

\* line 413: np.linalg.lstsq returns the solution, or raises LinAlgError when
\* LAPACK's SVD does not converge
LstsqConverges ==
  /\ UNCHANGED kept
  /\ op = "best_linear_fit_model"
  /\ pc = "lstsq"
  /\ \E c \in lstsq(A_weighted, b_weighted) :
       /\ coeffs' = c
       /\ solves' = Append(solves, Solved("lstsq", A_weighted, b_weighted, "ok"))
  /\ pc' = "matmul"
  /\ UNCHANGED <<op, args, ret, err, line_models, line_models_2, A_weighted, b_weighted,
                 A_2, coeffs_2>>

LstsqLinAlgError ==
  /\ UNCHANGED kept
  /\ op = "best_linear_fit_model"
  /\ pc = "lstsq"
  /\ solves' = Append(solves, Solved("lstsq", A_weighted, b_weighted, "LinAlgError"))
  /\ pc' = "except"
  /\ UNCHANGED <<op, args, ret, err, line_models, line_models_2, A_weighted, b_weighted,
                 coeffs, A_2, coeffs_2>>

\* lines 414-416: the except branch; nnls returns, or raises RuntimeError at
\* its iteration limit
ExceptNnls ==
  /\ UNCHANGED kept
  /\ op = "best_linear_fit_model"
  /\ pc = "except"
  /\ LET sys == except_system(A_weighted, b_weighted, line_models, args.spectra)
     IN  \/ /\ \E c \in nnls(sys.A, sys.b) : coeffs' = c
            /\ solves' = Append(solves, Solved("nnls", sys.A, sys.b, "ok"))
            /\ pc' = "matmul"
            /\ UNCHANGED <<op, args, ret, err>>
         \/ /\ solves' = Append(solves, Solved("nnls", sys.A, sys.b, "RuntimeError"))
            /\ Raise("RuntimeError")
            /\ UNCHANGED coeffs
  /\ UNCHANGED <<line_models, line_models_2, A_weighted, b_weighted, A_2, coeffs_2>>

\* lines 418-423
ReturnFit ==
  /\ UNCHANGED kept
  /\ op = "best_linear_fit_model"
  /\ pc = "matmul"
  /\ ret' = fit_return(matmul(line_models, coeffs), coeffs, args.get_amp)
  /\ pc' = "returned"
  /\ UNCHANGED <<op, args, err>>
  /\ UNCHANGED locals

(***************************************************************************)
(* best_linear_fit_model_simultaneous                                      *)
(***************************************************************************)
CallBestLinearFitModelSimultaneous ==
  \E a \in SimultaneousArgs :
    /\ Enter("best_linear_fit_model_simultaneous", a)
    /\ pc' = "build"
    /\ ret' = << >>
    /\ err' = ""

\* lines 439-468
BuildBasisSimultaneous ==
  /\ UNCHANGED kept
  /\ op = "best_linear_fit_model_simultaneous"
  /\ pc = "build"
  /\ LET r == line_models_simultaneous_of(
                args.velocity_1, broadcast_fwhms(args.fwhms_1, args.lines),
                args.velocity_2, broadcast_fwhms(args.fwhms_2, args.lines),
                args.wavelengths_1, args.wavelengths_2, args.lines)
     IN  IF r.raised # ""
         THEN /\ Raise(r.raised)
              /\ UNCHANGED locals
         ELSE /\ line_models' = r.value_1
              /\ line_models_2' = r.value_2
              /\ A_weighted' = weight_matrix(r.value_1, args.noise_1)
              /\ b_weighted' = weight_vector(args.spectra_1, args.noise_1)
              /\ pc' = "solve_1"
              /\ UNCHANGED <<op, args, ret, err, coeffs, A_2, coeffs_2, solves>>

\* lines 470-480: the first solve, then the template and A_2
SolveFirst ==
  /\ UNCHANGED kept
  /\ op = "best_linear_fit_model_simultaneous"
  /\ pc = "solve_1"
  /\ \/ /\ \E c \in simultaneous_solver(A_weighted, b_weighted) :
             /\ coeffs' = c
             /\ A_2' = A_2_of(spec_model_2_of(line_models_2, c))
        /\ solves' = Append(solves, Solved("nnls", A_weighted, b_weighted, "ok"))
        /\ pc' = "solve_2"
        /\ UNCHANGED <<op, args, ret, err>>
     \/ /\ solves' = Append(solves, Solved("nnls", A_weighted, b_weighted, "RuntimeError"))
        /\ Raise("RuntimeError")
        /\ UNCHANGED <<coeffs, A_2>>
  /\ UNCHANGED <<line_models, line_models_2, A_weighted, b_weighted, coeffs_2>>

\* lines 482-490: the second solve and the return
SolveSecond ==
  /\ UNCHANGED kept
  /\ op = "best_linear_fit_model_simultaneous"
  /\ pc = "solve_2"
  /\ LET A_weighted_2 == weight_matrix(A_2, args.noise_2)
         b_weighted_2 == weight_vector(args.spectra_2, args.noise_2)
     IN  \/ /\ \E c \in simultaneous_solver(A_weighted_2, b_weighted_2) :
                 /\ coeffs_2' = c
                 /\ ret' = <<matmul(line_models, coeffs), matmul(A_2, c)>>
            /\ solves' = Append(solves, Solved("nnls", A_weighted_2, b_weighted_2, "ok"))
            /\ pc' = "returned"
            /\ UNCHANGED <<op, args, err>>
         \/ /\ solves' = Append(solves, Solved("nnls", A_weighted_2, b_weighted_2, "RuntimeError"))
            /\ Raise("RuntimeError")
            /\ UNCHANGED coeffs_2
  /\ UNCHANGED <<line_models, line_models_2, A_weighted, b_weighted, coeffs, A_2>>

(***************************************************************************)
(* The caller takes the result (or the exception); nothing of the call is  *)
(* kept.                                                                   *)
(***************************************************************************)
Discard ==
  /\ pc \in {"returned", "raised"}
  /\ op' = "none"
  /\ pc' = "idle"
  /\ args' = << >>
  /\ ret' = << >>
  /\ err' = ""
  /\ line_models' = << >>
  /\ line_models_2' = << >>
  /\ A_weighted' = << >>
  /\ b_weighted' = << >>
  /\ coeffs' = << >>
  /\ A_2' = << >>
  /\ coeffs_2' = << >>
  /\ solves' = << >>
  /\ UNCHANGED kept

Next ==
  \/ CallGetSpectraSliceSpecs
  \/ CallGetSpectraCuts
  \/ CallBestLinearFitModel
  \/ BuildBasis
  \/ LstsqConverges
  \/ LstsqLinAlgError
  \/ ExceptNnls
  \/ ReturnFit
  \/ CallBestLinearFitModelSimultaneous
  \/ BuildBasisSimultaneous
  \/ SolveFirst
  \/ SolveSecond
  \/ Discard

Spec == Init /\ [][Next]_vars

\* the caller keeps the list a call returned: its arguments, the groups as
\* returned, and the list object itself
KeepReturnedList ==
  /\ op = "get_spectra_slice_specs"
  /\ pc = "returned"
  /\ kept = << >>
  /\ kept' = [args |-> args, returned |-> ret, list |-> ret]
  /\ UNCHANGED <<op, pc, args, ret, err>>
  /\ UNCHANGED locals

\* the caller modifies the list it keeps: list.pop(), or clearing the
\* line_names of its first group
ModifyKeptList ==
  /\ pc = "idle"
  /\ kept # << >>
  /\ Len(kept.list) > 0
  /\ \/ kept' = [kept EXCEPT !.list = Pop(kept.list, -1)]
     \/ /\ kept.list[1].line_names # << >>
        /\ kept' = [kept EXCEPT !.list[1].line_names = << >>]
  /\ UNCHANGED <<op, pc, args, ret, err>>
  /\ UNCHANGED locals

NextCatalog ==
  \/ CallGetSpectraSliceSpecs
  \/ KeepReturnedList
  \/ ModifyKeptList
  \/ Discard

SpecCatalog == Init /\ [][NextCatalog]_vars

NextProfile ==
  \/ CallIntegrateGaussian
  \/ CallIntegrateLorentzian
  \/ CallIntegrateVoigt
  \/ CallGetGaussian
  \/ CallGetLorentzian
  \/ CallGetVoigt
  \/ Discard

SpecProfile == Init /\ [][NextProfile]_vars

(***************************************************************************)
(* Properties                                                              *)
(***************************************************************************)
IsFit == op = "best_linear_fit_model"

IsSimultaneous == op = "best_linear_fit_model_simultaneous"

IsCatalog == op = "get_spectra_slice_specs"

IsCuts == op = "get_spectra_cuts"

\* the model curve best_linear_fit_model returned
ReturnedCurve == IF args.get_amp THEN ret[1] ELSE ret

\* sum over the columns 1..m of cols, each scaled by its coefficient, at pixel i
Combination(cols, c, m, i) == Sum([k \in 1..m |-> cols[k][i] * c[k]])

AllOnes(N) == [i \in 1..N |-> FP]

Ramp(N) == [i \in 1..N |-> (i - 1) * FP]

\* C1: in best_linear_fit_model, once lstsq has raised LinAlgError, nnls is run
\* on the same weighted matrix and the same weighted flux, the coefficients it
\* returns give the returned curve A @ c with the unweighted A, no exception
\* leaves the call, and an exception leaves the call only when nnls itself failed.
C1_FallbackToNnls ==
  (IsFit /\ Len(solves) >= 1 /\ solves[1].outcome = "LinAlgError") =>
    /\ pc \in {"except", "matmul", "returned", "raised"}
    /\ pc # "except" =>
         /\ Len(solves) = 2
         /\ solves[2].solver = "nnls"
         /\ solves[2].A = weight_matrix(line_models, args.noise)
         /\ solves[2].b = weight_vector(args.spectra, args.noise)
    /\ pc \in {"matmul", "returned"} =>
         /\ solves[2].outcome = "ok"
         /\ err = ""
         /\ coeffs \in nnls(weight_matrix(line_models, args.noise),
                            weight_vector(args.spectra, args.noise))
    /\ pc = "returned" =>
         ReturnedCurve = [i \in 1..Len(args.wavelengths) |->
                            Combination(line_models, coeffs, Len(line_models), i)]
    /\ pc = "raised" => solves[2].outcome = "RuntimeError" /\ err = "RuntimeError"

\* a fallback fit that returned, on a system whose weights are not all 1
C1_Witness ==
  /\ IsFit
  /\ pc = "returned"
  /\ solves[1].outcome = "LinAlgError"
  /\ A_weighted # line_models
  /\ \E j \in 1..Len(coeffs) : coeffs[j] > 0

\* the design matrix has two identical line columns
TwoIdenticalLineColumns ==
  /\ IsFit
  /\ Len(args.lines) = 2
  /\ Len(line_models) = 4
  /\ line_models[1] = line_models[2]

\* C2: for a design matrix with two identical line columns the coefficients
\* best_linear_fit_model returns come from the non-negative solve, so every
\* returned coefficient is >= 0.
C2_DegenerateUsesNnls ==
  (TwoIdenticalLineColumns /\ pc = "returned") =>
    /\ solves[Len(solves)].solver = "nnls"
    /\ \A j \in 1..Len(coeffs) : coeffs[j] >= 0

\* C3: best_linear_fit_model_simultaneous gives both systems to nnls only, never
\* to lstsq, so every coefficient of both fits is >= 0.
C3_SimultaneousNonNegative ==
  IsSimultaneous =>
    /\ \A k \in 1..Len(solves) : solves[k].solver = "nnls"
    /\ \A j \in 1..Len(coeffs) : coeffs[j] >= 0
    /\ \A j \in 1..Len(coeffs_2) : coeffs_2[j] >= 0
    /\ pc = "returned" =>
         /\ Len(solves) = 2
         /\ Len(coeffs) = Len(args.lines) + 2
         /\ Len(coeffs_2) = 3

\* a simultaneous fit that returned although the unconstrained solution of its
\* first system has a negative coefficient
C3_Witness ==
  /\ IsSimultaneous
  /\ pc = "returned"
  /\ \E c \in lstsq(A_weighted, b_weighted) : \E j \in 1..Len(c) : c[j] < 0

\* the spectrum-2 line vector of line k
SecondLineVector(k) ==
  get_pixel_integrated_gaussian(
    args.wavelengths_2, shifted_centre(args.lines[k], args.velocity_2),
    broadcast_fwhms(args.fwhms_2, args.lines).v[k], FP, 0, 0)

\* C4: in best_linear_fit_model_simultaneous, for n >= 1 lines, A_2 has exactly
\* the 3 columns combined template, all-ones and ramp 0..N2-1, and the template
\* is the sum over the n lines of the spectrum-2 line vector times the
\* spectrum-1 coefficient of the same line: the first n coefficients, never the
\* trailing constant and ramp coefficients.
C4_SecondDesignMatrix ==
  (IsSimultaneous /\ pc \in {"solve_2", "returned"}) =>
    LET n == Len(args.lines)
        N2 == Len(args.wavelengths_2)
    IN  /\ n >= 1
        /\ Len(coeffs) = n + 2
        /\ Len(A_2) = 3
        /\ A_2[1] = [i \in 1..N2 |->
                       Sum([k \in 1..n |-> SecondLineVector(k)[i] * coeffs[k]])]
        /\ A_2[2] = AllOnes(N2)
        /\ A_2[3] = Ramp(N2)

\* a returned simultaneous fit of two lines on segments of different lengths
\* whose line, constant and ramp coefficients differ
C4_Witness ==
  /\ IsSimultaneous
  /\ pc = "returned"
  /\ Len(args.lines) = 2
  /\ Len(args.wavelengths_1) # Len(args.wavelengths_2)
  /\ coeffs[1] + coeffs[2] > 0
  /\ \E i \in 1..Len(A_2[1]) : A_2[1][i] # 0

\* the indices get_spectra_cuts has to keep
KeptIndices ==
  {i \in 1..Len(args.wavelengths) :
     args.start < args.wavelengths[i] /\ args.wavelengths[i] < args.end}

\* the j-th kept index in increasing order
KeptIndex(j) ==
  CHOOSE i \in KeptIndices : Cardinality({h \in KeptIndices : h <= i}) = j

\* C5: get_spectra_cuts returns three sequences of equal length holding, in the
\* original order, exactly the samples at the indices i with
\* start < wavelengths[i] < end, the same indices for all three; with no such
\* index it returns three empty sequences and raises nothing.
C5_StrictCut ==
  IsCuts =>
    /\ pc = "returned"
    /\ err = ""
    /\ Len(ret) = 3
    /\ \A k \in 1..3 : Len(ret[k]) = Cardinality(KeptIndices)
    /\ \A j \in 1..Cardinality(KeptIndices) :
         /\ ret[1][j] = args.wavelengths[KeptIndex(j)]
         /\ ret[2][j] = args.spectra_1d[KeptIndex(j)]
         /\ ret[3][j] = args.noise_1d[KeptIndex(j)]
    /\ KeptIndices = {} => ret = << << >>, << >>, << >> >>

\* a cut that keeps a sample and drops one lying on a limit
C5_Witness ==
  /\ IsCuts
  /\ pc = "returned"
  /\ Len(ret[1]) >= 1
  /\ \E i \in 1..Len(args.wavelengths) :
       args.wavelengths[i] = args.start \/ args.wavelengths[i] = args.end

\* a cut with no sample in the window
C5_WitnessEmpty ==
  /\ IsCuts
  /\ pc = "returned"
  /\ Len(args.wavelengths) > 0
  /\ ret = << << >>, << >>, << >> >>

\* the cases C6 speaks of: N >= 2 samples, n >= 1 lines, fwhms a scalar or a
\* sequence of length n, and one of the three line types
C6_Case ==
  /\ IsFit
  /\ Len(args.wavelengths) >= 2
  /\ Len(args.lines) >= 1
  /\ args.fwhms.kind \in {"float", "int"} \/ Len(args.fwhms.v) = Len(args.lines)
  /\ args.line_type \in {"gaussian", "voigt", "lorentzian"}

\* the unit-amplitude line vector of line k
LineVector(k) ==
  get_spectra_model(args.wavelengths, shifted_centre(args.lines[k], args.velocity),
                    (IF args.fwhms.kind = "seq" THEN args.fwhms.v[k] ELSE args.fwhms.v[1]),
                    FP, 0, 0, args.line_type, args.voigt_gamma).value

\* C6: for N >= 2 samples, n >= 1 lines and fwhms a scalar or a sequence of
\* length n, best_linear_fit_model builds exactly n + 2 basis vectors of length
\* N: the line vectors in line-list order, then the all-ones vector, then the
\* ramp 0..N-1; with get_amp it returns n + 2 coefficients and a curve of
\* length N.
C6_BasisShape ==
  C6_Case =>
    LET n == Len(args.lines)
        N == Len(args.wavelengths)
    IN  /\ pc = "raised" => Len(solves) > 0
        /\ pc \in {"lstsq", "except", "matmul", "returned"} =>
             /\ Len(line_models) = n + 2
             /\ \A k \in 1..n : line_models[k] = LineVector(k)
             /\ line_models[n + 1] = AllOnes(N)
             /\ line_models[n + 2] = Ramp(N)
        /\ (pc = "returned" /\ args.get_amp) =>
             /\ Len(ret[2]) = n + 2
             /\ Len(ret[1]) = N

\* C6 for the fwhms the isinstance test of line 389 provides for: a float
\* scalar or a sequence of length n
C6_BasisShapeFloatOrSequence == (C6_Case /\ args.fwhms.kind # "int") => C6_BasisShape

\* fwhms with a scalar replaced by the sequence of n copies of it
Copies(fwhms, lines) ==
  IF fwhms.kind = "seq" THEN fwhms
  ELSE [kind |-> "seq", v |-> [k \in 1..Len(lines) |-> fwhms.v[1]]]

IsScalar(fwhms) == fwhms.kind \in {"float", "int"}

\* what the loop of best_linear_fit_model gives for the sequence of n copies
BasisForCopies ==
  line_models_of(args.velocity, Copies(args.fwhms, args.lines), args.wavelengths,
                 args.lines, args.line_type, args.voigt_gamma)

\* what the loop of best_linear_fit_model_simultaneous gives for the copies
SimultaneousBasisForCopies ==
  line_models_simultaneous_of(args.velocity_1, Copies(args.fwhms_1, args.lines),
                              args.velocity_2, Copies(args.fwhms_2, args.lines),
                              args.wavelengths_1, args.wavelengths_2, args.lines)

\* C7: a scalar fwhms of any numeric type, integer or floating, is applied to
\* every line, and best_linear_fit_model and best_linear_fit_model_simultaneous
\* proceed as if the sequence of n copies had been passed (stated for n >= 1
\* lines and segments of at least two samples).
C7_ScalarFwhms ==
  /\ (IsFit /\ IsScalar(args.fwhms) /\ pc # "build" /\ Len(args.lines) >= 1
      /\ Len(args.wavelengths) >= 2) =>
       IF BasisForCopies.raised # ""
       THEN pc = "raised" /\ err = BasisForCopies.raised
       ELSE /\ pc = "raised" => Len(solves) > 0
            /\ pc # "raised" => line_models = BasisForCopies.value
  /\ (IsSimultaneous /\ (IsScalar(args.fwhms_1) \/ IsScalar(args.fwhms_2)) /\ pc # "build"
      /\ Len(args.lines) >= 1 /\ Len(args.wavelengths_1) >= 2
      /\ Len(args.wavelengths_2) >= 2) =>
       IF SimultaneousBasisForCopies.raised # ""
       THEN pc = "raised" /\ err = SimultaneousBasisForCopies.raised
       ELSE /\ pc = "raised" => Len(solves) > 0
            /\ pc # "raised" =>
                 /\ line_models = SimultaneousBasisForCopies.value_1
                 /\ line_models_2 = SimultaneousBasisForCopies.value_2

\* C8, as stated: get_spectra_slice_specs("G140", mode="FS") returns 6 groups,
\* the unfiltered list of 7 without its last group, and mode="MSA" returns 5
\* groups, the unfiltered list of 7 without its last and its second group.
C8_SixAndFiveOfSeven ==
  (IsCatalog /\ pc = "returned" /\ args.disperser = G140 /\ ~args.extend) =>
    LET all == get_spectra_slice_specs(G140, "", FALSE).value
    IN  /\ Len(all) = 7
        /\ args.mode = "FS" => Len(ret) = 6 /\ ret = SubSeq(all, 1, 6)
        /\ args.mode = "MSA" => Len(ret) = 5 /\ ret = <<all[1]>> \o SubSeq(all, 3, 6)

\* C8, amended: get_spectra_slice_specs("G140", mode="FS") returns 5 groups, the
\* unfiltered list of 6 without its last group, and mode="MSA" returns 4 groups,
\* the unfiltered list of 6 without its last and its second group.
C8_FiveAndFourOfSix ==
  (IsCatalog /\ args.disperser = G140 /\ ~args.extend /\ args.mode \in {"FS", "MSA"}) =>
    /\ pc = "returned"
    /\ Len(G140_line_library) = 6
    /\ args.mode = "FS" =>
         /\ Len(ret) = 5
         /\ \A k \in 1..5 : ret[k] = G140_line_library[k]
    /\ args.mode = "MSA" =>
         /\ Len(ret) = 4
         /\ ret[1] = G140_line_library[1]
         /\ \A k \in 2..4 : ret[k] = G140_line_library[k + 1]

\* the call get_spectra_slice_specs("G140", mode="MSA") has returned
C8_Witness ==
  /\ IsCatalog
  /\ pc = "returned"
  /\ args.disperser = G140
  /\ args.mode = "MSA"
  /\ ~args.extend
  /\ Len(ret) > 0

\* C9: every group get_spectra_slice_specs returns has min_lambda < max_lambda
\* and as many line_names as line_wavlengths.
C9_GroupsWellFormed ==
  (IsCatalog /\ pc = "returned") =>
    \A k \in 1..Len(ret) :
      /\ ret[k].min_lambda < ret[k].max_lambda
      /\ Len(ret[k].line_names) = Len(ret[k].line_wavlengths)

\* the disperser names one of the three gratings
Recognized(disperser) ==
  \E g \in {G140, G235, G395} : Contains(g, Upper(disperser))

\* C10: with a recognized disperser and a mode that is neither "FS" nor "MSA",
\* get_spectra_slice_specs raises and returns no list.
C10_UnknownModeRaises ==
  (IsCatalog /\ pc # "idle" /\ Recognized(args.disperser) /\ args.mode \notin {"FS", "MSA"}) =>
    pc = "raised" /\ err # "" /\ ret = << >>
\* C11: get_spectra_slice_specs raises ValueError and returns no list for every
\* disperser that, upper-cased, contains none of "G140", "G235", "G395"; for
\* every disperser that contains one of them it returns a list, whatever mode
\* and extend are.
C11_DisperserDecides ==
  (IsCatalog /\ pc # "idle") =>
    IF Recognized(args.disperser)
    THEN pc = "returned" /\ err = "" /\ Len(ret) > 0
    ELSE pc = "raised" /\ err = "ValueError" /\ ret = << >>

\* a disperser naming no grating has been refused
C11_Witness ==
  /\ IsCatalog
  /\ pc = "raised"
  /\ err = "ValueError"
  /\ ~Recognized(args.disperser)

\* a lower-case disperser with an unrecognized mode and extend has returned
C11_WitnessReturned ==
  /\ IsCatalog
  /\ pc = "returned"
  /\ args.disperser = <<"g","1","4","0","h">>
  /\ args.mode = "IFU"
  /\ args.extend
  /\ Len(ret) > 0

OneSigmaFraction == 68

\* C13: for every centre mu and every fwhm > 0, with sigma = fwhm / 2.355,
\* integrate_gaussian(mu - sigma, mu + sigma, mu, fwhm) equals
\* 0.6826894921370859 * sigma * sqrt(2*pi), to the precision 1/FP of the
\* arithmetic.
C13_OneSigmaIntegral ==
  (op = "integrate_gaussian" /\ pc = "returned") =>
    LET sigma == Quot(args.fwhm, FwhmPerSigma)
        expected == Quot(OneSigmaFraction * sigma * SqrtTwoPi, FP)
    IN  (args.a = args.mu - sigma /\ args.b = args.mu + sigma) =>
          Abs(ret - expected) * FP <= expected

\* the one-sigma integral of a Gaussian of sigma = 2 about a centre off the
\* origin has been returned
C13_Witness ==
  /\ op = "integrate_gaussian"
  /\ pc = "returned"
  /\ args.fwhm = 4710
  /\ args.mu = 20003
  /\ args.a = 20001
  /\ args.b = 20005
  /\ ret > 0

\* the profile functions called with amplitude 1 and no continuum
UnitProfileCall ==
  /\ op \in {"get_gaussian", "get_lorentzian", "get_voigt"}
  /\ pc = "returned"
  /\ args.amp = FP
  /\ args.continuum_amp = 0
  /\ args.continuum_slope = 0

\* C14: with amplitude 1 and zero continuum terms, get_gaussian, get_lorentzian
\* and get_voigt (gamma = 0) are 1.0 at x = mu for every fwhm > 0, and the
\* profile integrate_gaussian, integrate_lorentzian and integrate_voigt
\* integrate is that unit-peak profile: over limits that hold the whole
\* Gaussian (3 sigma to either side) integrate_gaussian and integrate_voigt at
\* gamma = 0 return the area sigma * sqrt(2*pi) of the unit-peak Gaussian.
C14_UnitPeak ==
  /\ UnitProfileCall =>
       \A i \in 1..Len(args.x) : args.x[i] = args.mu => ret[i] = FP
  /\ (op \in {"integrate_gaussian", "integrate_voigt"} /\ pc = "returned") =>
       LET sigma == Quot(args.fwhm, FwhmPerSigma)
           whole(a, b) == a <= args.mu - 3 * sigma /\ b >= args.mu + 3 * sigma
           area == sigma * SqrtTwoPi
       IN  IF op = "integrate_gaussian"
           THEN whole(args.a, args.b) => Abs(ret - area) * FP <= area
           ELSE whole(args.a[1], args.b[1]) => Abs(ret[1] - area) * FP <= area

\* C14 for get_gaussian and integrate_gaussian alone
C14_UnitPeakGaussian ==
  /\ (UnitProfileCall /\ op = "get_gaussian") =>
       \A i \in 1..Len(args.x) : args.x[i] = args.mu => ret[i] = FP
  /\ (op = "integrate_gaussian" /\ pc = "returned") =>
       LET sigma == Quot(args.fwhm, FwhmPerSigma)
           area == sigma * SqrtTwoPi
       IN  (args.a <= args.mu - 3 * sigma /\ args.b >= args.mu + 3 * sigma) =>
             Abs(ret - area) * FP <= area

\* C15: integrate_gaussian and integrate_lorentzian are antisymmetric in their
\* limits: integral(a, b) = -integral(b, a) for every a, b, mu and fwhm > 0, so
\* a > b is accepted and gives the negated value, and integral(a, a) = 0.
C15_Antisymmetric ==
  /\ (op = "integrate_gaussian" /\ pc = "returned") =>
       /\ ret = -integrate_gaussian(args.b, args.a, args.mu, args.fwhm)
       /\ args.a = args.b => ret = 0
  /\ (op = "integrate_lorentzian" /\ pc = "returned") =>
       /\ ret = -integrate_lorentzian(args.b, args.a, args.mu, args.fwhm)
       /\ args.a = args.b => ret = 0
  /\ op \in {"integrate_gaussian", "integrate_lorentzian"} => pc # "raised"

\* integrate_lorentzian has returned a negative value for limits with a > b
C15_Witness ==
  /\ op = "integrate_lorentzian"
  /\ pc = "returned"
  /\ args.a > args.b
  /\ ret < 0

\* integrate_gaussian has returned a negative value for limits with a > b
C15_WitnessGaussian ==
  /\ op = "integrate_gaussian"
  /\ pc = "returned"
  /\ args.a > args.b
  /\ ret < 0

\* s occurs in t as a subsequence: every element of s, in the same relative order
RECURSIVE IsSubsequence(_, _)
IsSubsequence(s, t) ==
  IF s = << >> THEN TRUE
  ELSE IF t = << >> THEN FALSE
  ELSE IF Head(s) = Head(t) THEN IsSubsequence(Tail(s), Tail(t))
  ELSE IsSubsequence(s, Tail(t))

\* what the call would have returned with extend=False
WithoutExtend == get_spectra_slice_specs(args.disperser, args.mode, FALSE).value

\* C16: extend only adds groups: for every recognized disperser and every mode
\* the list returned with extend=True contains every group returned with
\* extend=False for the same disperser and mode, in the same relative order,
\* together with the extension groups.
C16_ExtendOnlyAdds ==
  (IsCatalog /\ pc = "returned" /\ args.extend) =>
    /\ IsSubsequence(WithoutExtend, ret)
    /\ Len(ret) >= Len(WithoutExtend)

\* what extend=True does return: for G140 the two extension groups followed by
\* the extend=False list without its last two groups, for the other gratings
\* the extend=False list
C16_ExtendDropsLastTwo ==
  (IsCatalog /\ pc = "returned" /\ args.extend) =>
    IF Contains(G140, Upper(args.disperser))
    THEN /\ Len(G140_extended_lines) = 2
         /\ ret = G140_extended_lines \o SubSeq(WithoutExtend, 1, Len(WithoutExtend) - 2)
    ELSE ret = WithoutExtend

\* get_spectra_slice_specs("G140", mode="FS", extend=True) has returned the
\* two extension groups and three of the five groups of extend=False
C16_Witness ==
  /\ IsCatalog
  /\ pc = "returned"
  /\ args.extend
  /\ args.disperser = G140
  /\ args.mode = "FS"
  /\ Len(WithoutExtend) = 5
  /\ Len(ret) = 5
  /\ ret[1] = G140_extended_lines[1]

\* a fit was called with a segment of fewer than 2 samples
ShortSegment ==
  \/ IsFit /\ Len(args.wavelengths) < 2
  \/ IsSimultaneous /\ (Len(args.wavelengths_1) < 2 \/ Len(args.wavelengths_2) < 2)

\* the call reaches the first line vector: there is a line, and fwhms is a
\* float or a sequence
ReachesFirstLine ==
  /\ Len(args.lines) >= 1
  /\ IF IsFit THEN args.fwhms.kind # "int"
     ELSE args.fwhms_1.kind # "int" /\ args.fwhms_2.kind # "int"

\* C17: when the segment passed to best_linear_fit_model or
\* best_linear_fit_model_simultaneous has fewer than 2 samples (the empty
\* segment included), the call fails with an error, returns no model curve and
\* no coefficients, and invokes no solver; where there is a first line vector
\* to build, the error is the one raised while building it.
C17_ShortSegmentFails ==
  ShortSegment =>
    /\ pc \in {"build", "raised"}
    /\ ret = << >>
    /\ solves = << >>
    /\ coeffs = << >> /\ coeffs_2 = << >>
    /\ line_models = << >> /\ A_weighted = << >>
    /\ pc = "raised" =>
         /\ err # ""
         /\ ReachesFirstLine =>
              err = IF IsFit /\ args.line_type \notin {"gaussian", "voigt", "lorentzian"}
                    THEN "ValueError" ELSE "IndexError"

\* best_linear_fit_model_simultaneous has failed on an empty second segment
\* with a first segment of two or more samples
C17_Witness ==
  /\ IsSimultaneous
  /\ pc = "raised"
  /\ err = "IndexError"
  /\ Len(args.wavelengths_1) >= 2
  /\ Len(args.wavelengths_2) = 0
  /\ Len(args.lines) >= 1

\* best_linear_fit_model has failed on a segment of one sample
C17_WitnessOneSample ==
  /\ IsFit
  /\ pc = "raised"
  /\ err = "IndexError"
  /\ Len(args.wavelengths) = 1
  /\ Len(args.lines) >= 1

====
